---- MODULE Spec2Model ----
(***************************************************************************)
(* Model of graph/download_graph.py: the capture / process / fallback      *)
(* pipeline of the river graph downloader.                                 *)
(*                                                                         *)
(* One invocation of the script is a run.  A run is either the normal mode *)
(* (download_graph_png) or the --check-stale mode (only                    *)
(* check_and_overlay_stale_data).  Invocations are serialized (one cron    *)
(* job at a time), so the model has a single control position pc.          *)
(*                                                                         *)
(* The tabular fetcher, fetcher/river_data_fetcher.py, is a program of its *)
(* own: one call of run_fetcher is modelled by SpecFetcher.                *)
(*                                                                         *)
(* Time is counted in whole hours.  A run lasts minutes (60 s timeouts and *)
(* a 10 s retry delay), far below the 12 h threshold, so the clock only    *)
(* advances between runs.                                                  *)
(***************************************************************************)
EXTENDS Integers, Sequences, FiniteSets, TLC

\* ---------------------------------------------------------------- bounds
MaxTime == 13
MaxRetryCount == 2
MaxCaptures == 2
MaxStamps == 2
MaxCropWidth == 730
MaxCropHeight == 445
MaxFetchRetryCount == 3
MaxReading == 2

\* ------------------------------------------------------------- constants
WARNING_THRESHOLD_HOURS == 12
TARGET_MAX_WIDTH == 720
TARGET_MAX_HEIGHT == 437

\* os.environ.get("TZ", "America/Montreal"), line 99: the deployment's zone
TZNames == {"America/Montreal"}
\* UTC offsets, in hours, that datetime.now().astimezone() carries in that
\* zone (standard and daylight saving time)
UtcOffsets == {-5, -4}

VARIABLES
    mode,          \* "none" | "normal" | "check": how the script was invoked
                   \* ("fetcher": a run of the tabular fetcher)
    pc,            \* control position inside the run
    attempt,       \* loop variable of download_graph_png
    maxAttempts,   \* FETCH_RETRY_COUNT of this run
    exit,          \* "none" | "ok" | "crash": how the last run ended
    log,           \* calls made by the current / last run, in order
    now,           \* wall clock (UTC), in hours
    canon,         \* content of LAST_SUCCESS_FILE
    web,           \* content of LAST_SUCCESS_WEB_FILE
    master,        \* latest_graph_cropped.png
    png,           \* latest_graph_compressed.png
    jpg,           \* latest_graph.jpg
    ptr,           \* latest_graph.png (symlink)
    buf,           \* capture held in memory_buffer (0: none)
    nextGen,       \* identity of the next capture
    pre,           \* the files when the call in progress (Image Pipeline,
                   \* save_last_success_time, staleness check) was entered
    stampsSinceSuccess, \* overlays stamped since the last successful capture
    backup,        \* "nodir" | "empty" | "full": state of BACKUP_DIR/graphs
    session,       \* a browser session (playwright driver, chromium) is open
    crop,          \* size <<width, height>> of cropped_img
    new_size,      \* size <<width, height>> of resized_img
    response,      \* fetcher: the local variable of fetch_and_parse_data
    parsed_data    \* fetcher: what fetch_and_parse_data returned

vars == <<mode, pc, attempt, maxAttempts, exit, log, now, canon, web,
          master, png, jpg, ptr, buf, nextGen, pre, stampsSinceSuccess,
          backup, session, crop, new_size, response, parsed_data>>

\* the variables of the resize computation
resizeVars == <<crop, new_size>>

\* the variables of the tabular fetcher alone
fetcherVars == <<response, parsed_data>>

\* the variables of the graph downloader alone
graphVars == <<mode, now, canon, web, master, png, jpg, ptr, buf, nextGen,
               pre, stampsSinceSuccess, backup, session>>

\* the files of the status store and of the artifact set
files == [canon |-> canon, web |-> web, master |-> master, png |-> png,
          jpg |-> jpg, ptr |-> ptr]

\* ------------------------------------------------------ status file data
\* A status file is absent, unparsable, or holds the JSON record.  The
\* timestamp is the ISO-8601 string of an aware datetime: the wall time in
\* the writer's zone together with that zone's UTC offset.
NoFile == [kind |-> "absent", wall |-> 0, off |-> 0, tz |-> "", sa |-> FALSE]
Corrupt == [kind |-> "corrupt", wall |-> 0, off |-> 0, tz |-> "", sa |-> FALSE]
EmptyDict == [kind |-> "empty", wall |-> 0, off |-> 0, tz |-> "", sa |-> FALSE]

\* datetime.now().astimezone().isoformat()
isoformat(utc, off) == [wall |-> utc + off, off |-> off]

\* the dict built without the "stale_applied" reset of line 106: the
\* flag of an earlier outage is carried over
SuccessRecord_keeps_flag(ts, tz_name) ==
    [kind |-> "rec", wall |-> ts.wall, off |-> ts.off, tz |-> tz_name,
     sa |-> TRUE]

\* the dict built by save_last_success_time
SuccessRecord(ts, tz_name) ==
    [kind |-> "rec", wall |-> ts.wall, off |-> ts.off, tz |-> tz_name,
     sa |-> FALSE]

\* LAST_SUCCESS_WEB_FILE opened in line 91 instead of LAST_SUCCESS_FILE: the
\* public file is what gets parsed
load_status_data_public(file) ==
    IF web.kind = "rec" THEN web ELSE EmptyDict

\* load_status_data: the parsed canonical file, {} when it is absent or
\* json.load raises
load_status_data(file) == IF file.kind = "rec" THEN file ELSE EmptyDict

\* the early return of lines 117-118 / 231-232 left out
HasLastSuccess_unchecked(data) == TRUE

\* data.get("last_successful_run") is truthy
HasLastSuccess(data) == data.kind = "rec"

\* the guard of line 233 dropped
StaleAlreadyApplied_dropped(data) == FALSE

\* data.get("stale_applied") is True
StaleAlreadyApplied(data) == data.sa = TRUE

\* datetime.now(last_success.tzinfo) - last_success, for
\* last_success = datetime.fromisoformat(last_success_raw): both operands
\* carry the record's fixed offset, so the wall times are subtracted
time_since(data, utc) == (utc + data.off) - data.wall

\* >= written for > in line 238
IsStale_inclusive(elapsed) == elapsed >= WARNING_THRESHOLD_HOURS

\* time_since > timedelta(hours=WARNING_THRESHOLD_HOURS)
IsStale(elapsed) == elapsed > WARNING_THRESHOLD_HOURS

\* the record rebuilt from the flag alone instead of updated in place
WithStaleApplied_rebuilt(data) ==
    [kind |-> "rec", wall |-> 0, off |-> 0, tz |-> "", sa |-> TRUE]

\* data["stale_applied"] = True
WithStaleApplied(data) == [data EXCEPT !.sa = TRUE]

\* with open(path, "w") as f: json.dump(data, f)
\*   "ok"   the file holds data
\*   "open" open() raised: the file is as before
\*   "dump" open() truncated the file and the write raised
WriteFile(old, data, outcome) ==
    CASE outcome = "ok" -> data
      [] outcome = "open" -> old
      [] outcome = "dump" -> Corrupt

\* ------------------------------------------------------------- artifacts
\* An image file is identified by the capture it was produced from (gen, 0
\* for a missing file) and the number of warning overlays stamped on it.
NoImage == [gen |-> 0, stamps |-> 0]
Fresh(g) == [gen |-> g, stamps |-> 0]
Stamped(img) == [img EXCEPT !.stamps = @ + 1]

NoFiles == [canon |-> NoFile, web |-> NoFile, master |-> NoImage,
            png |-> NoImage, jpg |-> NoImage, ptr |-> NoImage]

Append1(e) == log' = Append(log, e)

\* fetcher: response = None (line 151), and what requests.get returned
NoResponse == "None"

\* fetcher: the None that fetch_and_parse_data returns, and the dict of
\* lines 324-341 (of which the two readings are kept)
NoParsedData == [some |-> FALSE, height |-> 0, flow |-> 0]
ParsedData(h, q) == [some |-> TRUE, height |-> h, flow |-> q]

\* the function called by __main__ returned ("ok") or an exception left it
\* ("crash")
EndRun(how) == /\ pc' = "done"
               /\ exit' = how

Init ==
    /\ mode = "none"
    /\ pc = "idle"
    /\ attempt = 0
    /\ maxAttempts = 0
    /\ exit = "none"
    /\ log = <<>>
    /\ now = 0
    /\ canon = NoFile
    /\ web = NoFile
    /\ master = NoImage
    /\ png = NoImage
    /\ jpg = NoImage
    /\ ptr = NoImage
    /\ buf = 0
    /\ nextGen = 1
    /\ pre = NoFiles
    /\ stampsSinceSuccess = 0
    /\ backup \in {"nodir", "empty", "full"}
    /\ session = FALSE
    /\ crop = <<0, 0>>
    /\ new_size = <<0, 0>>
    /\ response = NoResponse
    /\ parsed_data = NoParsedData

\* the process exits: nothing of it remains but the files
ProcessExit ==
    /\ pc = "done"
    /\ pc' = "idle"
    /\ mode' = "none"
    /\ attempt' = 0
    /\ maxAttempts' = 0
    /\ exit' = "none"
    /\ log' = <<>>
    /\ buf' = 0
    /\ pre' = NoFiles
    /\ UNCHANGED <<now, canon, web, master, png, jpg, ptr, nextGen,
                   stampsSinceSuccess, backup>>
    /\ UNCHANGED session
    /\ UNCHANGED resizeVars
    /\ UNCHANGED fetcherVars

\* time passes between two invocations
Tick ==
    /\ pc = "idle"
    /\ now < MaxTime
    /\ now' = now + 1
    /\ UNCHANGED <<mode, pc, attempt, maxAttempts, exit, log, canon, web,
                   master, png, jpg, ptr, buf, nextGen, pre,
                   stampsSinceSuccess, backup>>
    /\ UNCHANGED session
    /\ UNCHANGED resizeVars
    /\ UNCHANGED fetcherVars

\* __main__ without --check-stale: asyncio.run(download_graph_png(...));
\* the for loop is entered when range(1, FETCH_RETRY_COUNT + 1) is not empty
StartNormal ==
    /\ pc = "idle"
    /\ stampsSinceSuccess < MaxStamps
    /\ \E n \in 0..MaxRetryCount :
         /\ maxAttempts' = n
         /\ IF n >= 1
              THEN /\ pc' = "acquire"
                   /\ attempt' = 1
                   /\ exit' = "none"
              ELSE /\ attempt' = 0
                   /\ EndRun("ok")
    /\ mode' = "normal"
    /\ log' = <<>>
    /\ UNCHANGED <<now, canon, web, master, png, jpg, ptr, buf, nextGen,
                   pre, stampsSinceSuccess, backup>>
    /\ UNCHANGED session
    /\ UNCHANGED resizeVars
    /\ UNCHANGED fetcherVars

\* args.check_stale not tested: the download is started all the same
CheckStaleEntry_flag_ignored == "acquire"

\* lines 352-354: where __main__ goes with --check-stale
CheckStaleEntry == "check"

\* __main__ with --check-stale
StartCheckStale ==
    /\ pc = "idle"
    /\ stampsSinceSuccess < MaxStamps
    /\ mode' = "check"
    /\ pc' = CheckStaleEntry
    /\ pre' = files
    /\ attempt' = 0
    /\ maxAttempts' = 0
    /\ exit' = "none"
    /\ log' = <<>>
    /\ UNCHANGED <<now, canon, web, master, png, jpg, ptr, buf, nextGen,
                   stampsSinceSuccess, backup>>
    /\ UNCHANGED session
    /\ UNCHANGED resizeVars
    /\ UNCHANGED fetcherVars

\* ------------------------------------------------------ Acquisition Driver
\* the browser is started without the context manager: an exception
\* leaves it running
SessionAfterException_leaked == TRUE

\* lines 269, 325: an exception leaves the "async with async_playwright()"
\* block, whose exit stops the driver and the browser it started, before
\* the except clause runs
SessionAfterException == FALSE

\* lines 269-316: the browser session delivered the exported PNG and it was
\* read into memory_buffer
AcquireOk ==
    /\ pc = "acquire"
    /\ nextGen <= MaxCaptures
    /\ buf' = nextGen
    /\ nextGen' = nextGen + 1
    /\ pre' = files
    /\ pc' = "pipe_master"
    /\ Append1("acquired")
    /\ UNCHANGED <<mode, attempt, maxAttempts, exit, now, canon, web,
                   master, png, jpg, ptr, stampsSinceSuccess, backup>>
    /\ session' = TRUE
    /\ UNCHANGED resizeVars
    /\ UNCHANGED fetcherVars

\* lines 269-316 raised (navigation, selector, download timeout, read)
AcquireFail ==
    /\ pc = "acquire"
    /\ pc' = "except"
    /\ Append1("acquire_failed")
    /\ UNCHANGED <<mode, attempt, maxAttempts, exit, now, canon, web,
                   master, png, jpg, ptr, buf, nextGen, pre,
                   stampsSinceSuccess, backup>>
    /\ session' = SessionAfterException
    /\ UNCHANGED resizeVars
    /\ UNCHANGED fetcherVars

\* --------------------------------------------------------- Image Pipeline
PipeSteps == {"pipe_master", "pipe_png", "pipe_jpg", "pipe_unlink",
              "pipe_symlink"}

\* the master is written under another name: latest_graph_cropped.png
\* keeps its old content
PipeSaveMaster_elsewhere ==
    /\ pc = "pipe_master"
    /\ pc' = "pipe_png"
    /\ UNCHANGED <<mode, attempt, maxAttempts, exit, log, now, canon, web,
                   master, png, jpg, ptr, buf, nextGen, pre,
                   stampsSinceSuccess, backup>>
    /\ UNCHANGED session
    /\ UNCHANGED resizeVars
    /\ UNCHANGED fetcherVars

\* lines 190-196: Image.open, crop, cropped_img.save(cropped_path)
PipeSaveMaster ==
    /\ pc = "pipe_master"
    /\ master' = Fresh(buf)
    /\ pc' = "pipe_png"
    /\ UNCHANGED <<mode, attempt, maxAttempts, exit, log, now, canon, web,
                   png, jpg, ptr, buf, nextGen, pre, stampsSinceSuccess,
                   backup>>
    /\ UNCHANGED session
    /\ UNCHANGED resizeVars
    /\ UNCHANGED fetcherVars

\* lines 200-212: scale, resize, quantize,
\* paletted_img.save(compressed_path)
PipeSavePng ==
    /\ pc = "pipe_png"
    /\ png' = Fresh(buf)
    /\ pc' = "pipe_jpg"
    /\ UNCHANGED <<mode, attempt, maxAttempts, exit, log, now, canon, web,
                   master, jpg, ptr, buf, nextGen, pre, stampsSinceSuccess,
                   backup>>
    /\ UNCHANGED session
    /\ UNCHANGED resizeVars
    /\ UNCHANGED fetcherVars

\* line 213: resized_img.save(jpg_path)
PipeSaveJpg ==
    /\ pc = "pipe_jpg"
    /\ jpg' = Fresh(buf)
    /\ pc' = "pipe_unlink"
    /\ UNCHANGED <<mode, attempt, maxAttempts, exit, log, now, canon, web,
                   master, png, ptr, buf, nextGen, pre, stampsSinceSuccess,
                   backup>>
    /\ UNCHANGED session
    /\ UNCHANGED resizeVars
    /\ UNCHANGED fetcherVars

\* lines 217-218: os.remove of the old pointer, when there is one
PipeUnlink ==
    /\ pc = "pipe_unlink"
    /\ ptr' = NoImage
    /\ pc' = "pipe_symlink"
    /\ UNCHANGED <<mode, attempt, maxAttempts, exit, log, now, canon, web,
                   master, png, jpg, buf, nextGen, pre, stampsSinceSuccess,
                   backup>>
    /\ UNCHANGED session
    /\ UNCHANGED resizeVars
    /\ UNCHANGED fetcherVars

\* lines 219-221: os.symlink, return True
PipeSymlink ==
    /\ pc = "pipe_symlink"
    /\ ptr' = Fresh(buf)
    /\ pc' = "save"
    /\ pre' = [files EXCEPT !.ptr = Fresh(buf)]
    /\ stampsSinceSuccess' = 0
    /\ Append1("pipeline_ok")
    /\ UNCHANGED <<mode, attempt, maxAttempts, exit, now, canon, web,
                   master, png, jpg, buf, nextGen, backup>>
    /\ UNCHANGED session
    /\ UNCHANGED resizeVars
    /\ UNCHANGED fetcherVars

\* the result of process_and_save_image ignored: the success path is taken
AfterPipelineFailed_ignored == "save"

\* lines 319-324: where download_graph_png goes when
\* process_and_save_image returned False: past the if, to browser.close()
\* and return
AfterPipelineFailed == "done"

\* lines 222-224 and 319-324: a step of the pipeline raised, the function
\* returned False, download_graph_png closes the browser and returns
PipeFail ==
    /\ pc \in PipeSteps
    /\ ~(pc = "pipe_unlink" /\ ptr.gen = 0)
    /\ Append1("pipeline_failed")
    /\ pc' = AfterPipelineFailed
    /\ exit' = IF AfterPipelineFailed = "done" THEN "ok" ELSE exit
    /\ UNCHANGED <<mode, attempt, maxAttempts, now, canon, web, master,
                   png, jpg, ptr, buf, nextGen, pre, stampsSinceSuccess,
                   backup>>
    /\ session' = IF AfterPipelineFailed = "done" THEN FALSE ELSE session
    /\ UNCHANGED resizeVars
    /\ UNCHANGED fetcherVars

\* ----------------------------------------------------------- Status Store
SaveOutcomes == {"mkdir", "c_open", "c_dump", "w_open", "w_dump", "ok"}

\* the two files after save_last_success_time wrote data with the outcome
SaveCanon(old, data, o) ==
    CASE o = "mkdir" -> old
      [] o = "c_open" -> WriteFile(old, data, "open")
      [] o = "c_dump" -> WriteFile(old, data, "dump")
      [] OTHER -> WriteFile(old, data, "ok")

\* the second write (lines 110-111, 122-123) left out
SaveWeb_not_written(old, data, o) == old
SaveWeb(old, data, o) ==
    CASE o \in {"mkdir", "c_open", "c_dump"} -> old
      [] o = "w_open" -> WriteFile(old, data, "open")
      [] o = "w_dump" -> WriteFile(old, data, "dump")
      [] OTHER -> WriteFile(old, data, "ok")

\* line 320: save_last_success_time(), lines 98-112
save_last_success_time ==
    /\ pc = "save"
    /\ \E o \in SaveOutcomes, off \in UtcOffsets, tz_name \in TZNames :
         LET data == SuccessRecord(isoformat(now, off), tz_name) IN
         /\ canon' = SaveCanon(canon, data, o)
         /\ web' = SaveWeb(web, data, o)
         /\ IF o = "ok"
              THEN /\ pc' = "backup"
                   /\ Append1("saved")
                   /\ session' = session
              ELSE /\ pc' = "except"
                   /\ Append1("save_failed")
                   /\ session' = SessionAfterException
    /\ UNCHANGED <<mode, attempt, maxAttempts, exit, now, master, png, jpg,
                   ptr, buf, nextGen, pre, stampsSinceSuccess, backup>>
    /\ UNCHANGED resizeVars
    /\ UNCHANGED fetcherVars

\* --------------------------------------------------------- Backup Trigger
\* only the directory test of line 249 is made
BackupMissing_dir_only(b) == b # "nodir"

\* lines 249-253: BACKUP_DIR is a directory and BACKUP_DIR/graphs is
\* missing or empty
BackupMissing(b) == b = "empty"

\* line 321: backup_if_missing(), lines 248-259, then browser.close() and
\* return (lines 323-324)
backup_if_missing ==
    /\ pc = "backup"
    /\ \E scriptExists \in BOOLEAN, scriptOk \in BOOLEAN :
         IF BackupMissing(backup) /\ scriptExists
           THEN /\ backup' = IF scriptOk THEN "full" ELSE backup
                /\ log' = log \o <<"backup", "script">>
           ELSE /\ backup' = backup
                /\ Append1("backup")
    /\ EndRun("ok")
    /\ UNCHANGED <<mode, attempt, maxAttempts, now, canon, web, master,
                   png, jpg, ptr, buf, nextGen, pre, stampsSinceSuccess>>
    /\ session' = FALSE
    /\ UNCHANGED resizeVars
    /\ UNCHANGED fetcherVars

\* ------------------------------------------------------------- retry loop
\* lines 325-337: except branch of an attempt before the last one: sleep,
\* then the next iteration of the for loop
Retry ==
    /\ pc = "except"
    /\ attempt < maxAttempts
    /\ attempt' = attempt + 1
    /\ pc' = "acquire"
    /\ Append1("sleep")
    /\ UNCHANGED <<mode, maxAttempts, exit, now, canon, web, master, png,
                   jpg, ptr, buf, nextGen, pre, stampsSinceSuccess, backup>>
    /\ UNCHANGED session
    /\ UNCHANGED resizeVars
    /\ UNCHANGED fetcherVars

\* lines 338-345: except branch of the last attempt
Exhausted ==
    /\ pc = "except"
    /\ ~(attempt < maxAttempts)
    /\ pc' = "check"
    /\ pre' = files
    /\ UNCHANGED <<mode, attempt, maxAttempts, exit, log, now, canon, web,
                   master, png, jpg, ptr, buf, nextGen, stampsSinceSuccess,
                   backup>>
    /\ UNCHANGED session
    /\ UNCHANGED resizeVars
    /\ UNCHANGED fetcherVars

\* -------------------------------------------------------- staleness check
\* the test of line 231 left out
OverlayDue_unguarded(data, utc) ==
    /\ ~StaleAlreadyApplied(data)
    /\ IsStale(time_since(data, utc))

\* the overlay is due: lines 229-238 of check_and_overlay_stale_data
OverlayDue(data, utc) ==
    /\ HasLastSuccess(data)
    /\ ~StaleAlreadyApplied(data)
    /\ IsStale(time_since(data, utc))

\* check_and_overlay_stale_data, lines 229-241
check_and_overlay_stale_data ==
    /\ pc = "check"
    /\ Append1("check")
    /\ IF OverlayDue(load_status_data(canon), now)
         THEN /\ pc' = "overlay"
              /\ exit' = exit
         ELSE EndRun("ok")
    /\ UNCHANGED <<mode, attempt, maxAttempts, now, canon, web, master,
                   png, jpg, ptr, buf, nextGen, pre, stampsSinceSuccess,
                   backup>>
    /\ UNCHANGED session
    /\ UNCHANGED resizeVars
    /\ UNCHANGED fetcherVars

\* the try of line 128 left out: the exception of a failed step leaves
\* add_warning_overlay
OverlayErrorPropagates_no_try == TRUE

\* lines 128, 179-180: an exception inside add_warning_overlay is logged,
\* not raised
OverlayErrorPropagates == FALSE

\* lines 242-244: add_warning_overlay(latest_graph_cropped.png), lines
\* 126-180: returns when the file is missing, stamps it and saves it in
\* place, or logs the exception of a failed step
add_warning_overlay ==
    /\ pc = "overlay"
    /\ \E drawn \in BOOLEAN :
         IF master.gen # 0 /\ drawn
           THEN /\ master' = Stamped(master)
                /\ stampsSinceSuccess' = stampsSinceSuccess + 1
                /\ log' = log \o <<"overlay", "stamped">>
                /\ pc' = "mark"
                /\ exit' = exit
           ELSE /\ UNCHANGED <<master, stampsSinceSuccess>>
                /\ Append1("overlay")
                /\ IF master.gen # 0 /\ OverlayErrorPropagates
                     THEN EndRun("crash")
                     ELSE /\ pc' = "mark"
                          /\ exit' = exit
    /\ UNCHANGED <<mode, attempt, maxAttempts, now, canon, web, png,
                   jpg, ptr, buf, nextGen, pre, backup>>
    /\ UNCHANGED session
    /\ UNCHANGED resizeVars
    /\ UNCHANGED fetcherVars

MarkOutcomes == {"c_open", "c_dump", "w_open", "w_dump", "ok"}

\* line 245: mark_stale_applied(), lines 115-123; an exception of a write
\* leaves check_and_overlay_stale_data and the run
mark_stale_applied ==
    /\ pc = "mark"
    /\ LET data == load_status_data(canon) IN
       IF ~HasLastSuccess(data)
         THEN /\ UNCHANGED <<canon, web>>
              /\ Append1("mark")
              /\ EndRun("ok")
         ELSE \E o \in MarkOutcomes :
                /\ canon' = SaveCanon(canon, WithStaleApplied(data), o)
                /\ web' = SaveWeb(web, WithStaleApplied(data), o)
                /\ IF o = "ok"
                     THEN /\ Append1("mark")
                          /\ EndRun("ok")
                     ELSE /\ Append1("mark_failed")
                          /\ EndRun("crash")
    /\ UNCHANGED <<mode, attempt, maxAttempts, now, master, png, jpg, ptr,
                   buf, nextGen, pre, stampsSinceSuccess, backup>>
    /\ UNCHANGED session
    /\ UNCHANGED resizeVars
    /\ UNCHANGED fetcherVars

process_and_save_image ==
    \/ PipeSaveMaster \/ PipeSavePng \/ PipeSaveJpg \/ PipeUnlink
    \/ PipeSymlink \/ PipeFail

download_graph_png ==
    \/ AcquireOk \/ AcquireFail \/ process_and_save_image
    \/ save_last_success_time \/ backup_if_missing \/ Retry \/ Exhausted

Next ==
    \/ Tick \/ StartNormal \/ StartCheckStale \/ ProcessExit
    \/ download_graph_png
    \/ check_and_overlay_stale_data \/ add_warning_overlay
    \/ mark_stale_applied

Spec == Init /\ [][Next]_vars

\* a step of the run in progress
RunStep ==
    \/ download_graph_png
    \/ check_and_overlay_stale_data \/ add_warning_overlay
    \/ mark_stale_applied

\* ----------------------------------------------------------------- resize
\* lines 202-206 of process_and_save_image, as a computation of its own:
\* the size of resized_img for every size of cropped_img.

\* max written for min in line 203
WidthLimits_max(w, h) == TARGET_MAX_WIDTH * h >= TARGET_MAX_HEIGHT * w

\* line 203: min(...) is target_width / width, that is
\* 720 / w <= 437 / h.  Division of doubles is monotone, so the doubles
\* compare as the fractions do, or are equal.
WidthLimits(w, h) == TARGET_MAX_WIDTH * h <= TARGET_MAX_HEIGHT * w

\* int(n * scale) for scale = num / den in doubles.  The quotient and the
\* product are each rounded to 53 bits, a relative error below 2^-52.  A
\* product that is not a whole number is further than 1 / den from the next
\* one, so int() truncates it as the exact value; a product that is a
\* whole number k comes out as k or just below it, and int() gives k or
\* k - 1 (int(45 * (437 / 45)) = 436).
IntOfScaled(n, num, den) ==
    LET k == (n * num) \div den IN
    IF (n * num) % den = 0 THEN {k - 1, k} ELSE {k}

\* line 206: new_size
NewSizes(w, h) ==
    IF WidthLimits(w, h)
      THEN IntOfScaled(w, TARGET_MAX_WIDTH, w)
             \X IntOfScaled(h, TARGET_MAX_WIDTH, w)
      ELSE IntOfScaled(w, TARGET_MAX_HEIGHT, h)
             \X IntOfScaled(h, TARGET_MAX_HEIGHT, h)

\* a cropped image of every size in the range, nothing else going on
InitResize ==
    /\ mode = "none"
    /\ pc = "resize"
    /\ attempt = 0
    /\ maxAttempts = 0
    /\ exit = "none"
    /\ log = <<>>
    /\ now = 0
    /\ canon = NoFile
    /\ web = NoFile
    /\ master = NoImage
    /\ png = NoImage
    /\ jpg = NoImage
    /\ ptr = NoImage
    /\ buf = 0
    /\ nextGen = 1
    /\ pre = NoFiles
    /\ stampsSinceSuccess = 0
    /\ backup = "nodir"
    /\ session = FALSE
    /\ crop \in (1..MaxCropWidth) \X (1..MaxCropHeight)
    /\ new_size = <<0, 0>>
    /\ response = NoResponse
    /\ parsed_data = NoParsedData

\* lines 203-206
Resize ==
    /\ pc = "resize"
    /\ new_size' \in NewSizes(crop[1], crop[2])
    /\ pc' = "resized"
    /\ UNCHANGED <<mode, attempt, maxAttempts, exit, log, now, canon, web,
                   master, png, jpg, ptr, buf, nextGen, pre,
                   stampsSinceSuccess, backup, session, crop>>
    /\ UNCHANGED fetcherVars

NextResize == Resize

SpecResize == InitResize /\ [][NextResize]_vars

\* ---------------------------------------------------------------- fetcher
\* fetcher/river_data_fetcher.py: one call of run_fetcher.  maxAttempts is
\* its FETCH_RETRY_COUNT and attempt the loop variable of
\* fetch_and_parse_data; log holds the requests made and what came of them.

\* run_fetcher is called, for every FETCH_RETRY_COUNT in the range
InitFetcher ==
    /\ mode = "fetcher"
    /\ pc = "f_loop"
    /\ attempt = 0
    /\ maxAttempts \in 0..MaxFetchRetryCount
    /\ exit = "none"
    /\ log = <<>>
    /\ now = 0
    /\ canon = NoFile
    /\ web = NoFile
    /\ master = NoImage
    /\ png = NoImage
    /\ jpg = NoImage
    /\ ptr = NoImage
    /\ buf = 0
    /\ nextGen = 1
    /\ pre = NoFiles
    /\ stampsSinceSuccess = 0
    /\ backup = "nodir"
    /\ session = FALSE
    /\ crop = <<0, 0>>
    /\ new_size = <<0, 0>>
    /\ response = NoResponse
    /\ parsed_data = NoParsedData

\* line 152: for attempt in range(1, FETCH_RETRY_COUNT + 1); the statement
\* after an exhausted range is line 179
FetchLoop ==
    /\ pc = "f_loop"
    /\ IF attempt < maxAttempts
         THEN /\ attempt' = attempt + 1
              /\ pc' = "f_get"
         ELSE /\ attempt' = attempt
              /\ pc' = "f_encoding"
    /\ UNCHANGED <<maxAttempts, exit, log>>
    /\ UNCHANGED graphVars
    /\ UNCHANGED resizeVars
    /\ UNCHANGED fetcherVars

\* lines 154-156: requests.get returned, raise_for_status passed, break
GetOk ==
    /\ pc = "f_get"
    /\ response' = "ok"
    /\ Append1("get_ok")
    /\ pc' = "f_encoding"
    /\ UNCHANGED <<attempt, maxAttempts, exit, parsed_data>>
    /\ UNCHANGED graphVars
    /\ UNCHANGED resizeVars

\* lines 154-176: requests.get raised (response keeps its value) or
\* raise_for_status raised on the response received; sleep and go round
\* before the last attempt, return None at the last one
GetFail ==
    /\ pc = "f_get"
    /\ \E received \in BOOLEAN :
         response' = IF received THEN "error" ELSE response
    /\ IF attempt < maxAttempts
         THEN /\ log' = log \o <<"get_failed", "sleep">>
              /\ pc' = "f_loop"
         ELSE /\ Append1("get_failed")
              /\ pc' = "f_returned"
    /\ parsed_data' = NoParsedData
    /\ UNCHANGED <<attempt, maxAttempts, exit>>
    /\ UNCHANGED graphVars
    /\ UNCHANGED resizeVars

\* line 179: response.encoding = "utf-8"; on None the AttributeError leaves
\* fetch_and_parse_data and run_fetcher, neither of which catches it there
SetEncoding ==
    /\ pc = "f_encoding"
    /\ IF response = NoResponse
         THEN EndRun("crash")
         ELSE /\ pc' = "f_parse"
              /\ exit' = exit
    /\ UNCHANGED <<attempt, maxAttempts, log>>
    /\ UNCHANGED graphVars
    /\ UNCHANGED resizeVars
    /\ UNCHANGED fetcherVars

\* the ways lines 180-353 end without a dict: no table with the expected
\* header (line 222), no row after the header (230), fewer than four cells
\* (240), a date or number that does not parse (351-353)
ParseFailures == {"no_table", "no_rows", "short_row", "bad_cell"}

\* lines 180-353: the table is parsed into the dict, or None is returned
Parse ==
    /\ pc = "f_parse"
    /\ \/ /\ \E h \in 0..MaxReading, q \in 0..MaxReading :
               parsed_data' = ParsedData(h, q)
          /\ Append1("parsed")
       \/ /\ \E why \in ParseFailures : parsed_data' = NoParsedData
          /\ Append1("parse_failed")
    /\ pc' = "f_returned"
    /\ UNCHANGED <<attempt, maxAttempts, exit, response>>
    /\ UNCHANGED graphVars
    /\ UNCHANGED resizeVars

\* "if parsed_data:" of line 440: a dict with keys is true, None is not
Truthy(data) == data.some

\* lines 440-450 of run_fetcher
RunFetcherBranch ==
    /\ pc = "f_returned"
    /\ IF Truthy(parsed_data)
         THEN /\ pc' = "f_post_flow"
              /\ exit' = exit
         ELSE EndRun("ok")
    /\ UNCHANGED <<attempt, maxAttempts, log>>
    /\ UNCHANGED graphVars
    /\ UNCHANGED resizeVars
    /\ UNCHANGED fetcherVars

\* lines 406-416: the flow reading is posted; a RequestException is logged
PostFlow ==
    /\ pc = "f_post_flow"
    /\ \E accepted \in BOOLEAN :
         Append1(IF accepted THEN "post_flow" ELSE "post_flow_failed")
    /\ pc' = "f_post_height"
    /\ UNCHANGED <<attempt, maxAttempts, exit>>
    /\ UNCHANGED graphVars
    /\ UNCHANGED resizeVars
    /\ UNCHANGED fetcherVars

\* lines 418-428: the height reading is posted; a RequestException is
\* logged; send_to_home_assistant and run_fetcher return
PostHeight ==
    /\ pc = "f_post_height"
    /\ \E accepted \in BOOLEAN :
         Append1(IF accepted THEN "post_height" ELSE "post_height_failed")
    /\ EndRun("ok")
    /\ UNCHANGED <<attempt, maxAttempts>>
    /\ UNCHANGED graphVars
    /\ UNCHANGED resizeVars
    /\ UNCHANGED fetcherVars

fetch_and_parse_data ==
    \/ FetchLoop \/ GetOk \/ GetFail \/ SetEncoding \/ Parse

send_to_home_assistant == PostFlow \/ PostHeight

run_fetcher ==
    \/ fetch_and_parse_data \/ RunFetcherBranch \/ send_to_home_assistant

NextFetcher == run_fetcher

SpecFetcher == InitFetcher /\ [][NextFetcher]_vars

\* ================================================================ claims
Last(q) == q[Len(q)]
Count(q, e) == Cardinality({i \in 1..Len(q) : q[i] = e})
Has(q, e) == \E i \in 1..Len(q) : q[i] = e

\* the instant (UTC, hours) a record's last_successful_run denotes
UtcOf(rec) == rec.wall - rec.off

artifactSet == <<master, png, jpg, ptr>>
ArtifactsOf(f) == <<f.master, f.png, f.jpg, f.ptr>>

\* C1: between two successful captures the warning overlay is stamped onto
\* the master at most once, whatever fails in the runs between them.
C1_OneStampPerOutage == stampsSinceSuccess <= 1

\* C2: a staleness check that finds stale_applied already true ends at
\* once: no overlay call, no write, status mirrors and artifacts as before.
C2_GuardedCheckIsNoOp ==
    [][(pc = "check" /\ canon.kind = "rec" /\ canon.sa)
         => /\ pc' = "done"
            /\ exit' = "ok"
            /\ log' = Append(log, "check")
            /\ UNCHANGED <<canon, web, master, png, jpg, ptr>>]_vars

\* a --check-stale run that found the flag set, on a stamped master, is over
C2_Witness ==
    /\ pc = "done"
    /\ mode = "check"
    /\ log = <<"check">>
    /\ canon.kind = "rec"
    /\ canon.sa
    /\ master.stamps = 1

\* C3: when save_last_success_time returns, both mirrors hold the same
\* record: last_successful_run is the present instant, timezone is the
\* configured name, stale_applied is false, whatever the files held before.
C3_SaveResetsRecord ==
    (pc = "backup")
      => /\ canon.kind = "rec"
         /\ web = canon
         /\ UtcOf(canon) = now
         /\ canon.off \in UtcOffsets
         /\ canon.tz \in TZNames
         /\ canon.sa = FALSE

\* save_last_success_time returned after it found a record with
\* stale_applied true
C3_Witness ==
    /\ pc = "backup"
    /\ pre.canon.kind = "rec"
    /\ pre.canon.sa
    /\ canon.sa = FALSE

\* C4: a staleness check that finds a record with stale_applied false calls
\* the overlay and the stale_applied update exactly when more than
\* WARNING_THRESHOLD_HOURS have elapsed since last_successful_run; at
\* exactly the threshold it changes nothing.
C4_StrictThreshold ==
    (pc = "done" /\ Has(log, "check") /\ pre.canon.kind = "rec"
       /\ ~pre.canon.sa)
      => IF now - UtcOf(pre.canon) > WARNING_THRESHOLD_HOURS
           THEN /\ Count(log, "overlay") = 1
                /\ Count(log, "mark") + Count(log, "mark_failed") = 1
           ELSE /\ ~Has(log, "overlay")
                /\ ~Has(log, "mark")
                /\ ~Has(log, "mark_failed")
                /\ files = pre

\* one hour past the threshold: overlay stamped and flag written
C4_Witness ==
    /\ pc = "done"
    /\ Has(log, "check")
    /\ pre.canon.kind = "rec"
    /\ ~pre.canon.sa
    /\ now - UtcOf(pre.canon) = WARNING_THRESHOLD_HOURS + 1
    /\ Has(log, "stamped")
    /\ canon.sa

\* exactly at the threshold: the check ran and nothing was touched
C4_AtThreshold ==
    /\ pc = "done"
    /\ Has(log, "check")
    /\ pre.canon.kind = "rec"
    /\ ~pre.canon.sa
    /\ now - UtcOf(pre.canon) = WARNING_THRESHOLD_HOURS
    /\ master.gen # 0

\* C5: when process_and_save_image has returned, the four artifacts are
\* all from this call, or they are the set found on entry, untouched.
C5_AllOrNothing ==
    /\ (pc = "save") => \A a \in {master, png, jpg, ptr} : a = Fresh(buf)
    /\ (pc = "done" /\ log # <<>> /\ Last(log) = "pipeline_failed")
         => artifactSet = ArtifactsOf(pre)

\* the number of the attempt in which the i-th call of the run was made
AttemptAt(i) == 1 + Count(SubSeq(log, 1, i), "sleep")

\* C6: in a normal run, a failure of the acquisition or of the Image
\* Pipeline in an attempt before the last one is followed by the retry
\* delay and then by the next attempt.
C6_FailureRetries ==
    \A i \in 1..Len(log) :
      (mode = "normal" /\ log[i] \in {"acquire_failed", "pipeline_failed"}
         /\ AttemptAt(i) < maxAttempts)
        => IF i = Len(log)
             THEN pc = "except"
             ELSE /\ log[i + 1] = "sleep"
                  /\ IF i + 1 = Len(log)
                       THEN pc = "acquire"
                       ELSE log[i + 2] \in {"acquired", "acquire_failed"}

\* C7: a normal run whose last attempt failed calls the staleness check
\* exactly once, after every attempt, and returns normally.
C7_ExhaustedRunChecksOnce ==
    (pc = "done" /\ mode = "normal" /\ maxAttempts >= 1
       /\ attempt = maxAttempts /\ ~Has(log, "backup"))
      => /\ exit = "ok"
         /\ Count(log, "check") = 1
         /\ \A i \in 1..Len(log) : \A j \in 1..Len(log) :
              (log[i] = "check" /\ j > i)
                => log[j] \notin {"acquired", "acquire_failed", "sleep",
                                  "pipeline_ok", "pipeline_failed"}

\* the last_successful_run value of a record
LsrOf(rec) == <<rec.wall, rec.off>>

\* C8: a last_successful_run value that neither mirror held appears only by
\* save_last_success_time in an attempt whose acquisition and Image
\* Pipeline both succeeded, and the backup trigger is called only in a
\* normal run, directly after that write has returned.
C8_WriteAndBackupOnlyOnSuccess ==
    /\ [][(\E f \in {canon', web'} :
              /\ f.kind = "rec"
              /\ \A g \in {canon, web} :
                   ~(g.kind = "rec" /\ LsrOf(g) = LsrOf(f)))
            => /\ pc = "save"
               /\ mode = "normal"
               /\ Len(log) >= 2
               /\ log[Len(log)] = "pipeline_ok"
               /\ log[Len(log) - 1] = "acquired"]_vars
    /\ [](\A i \in 1..Len(log) :
            log[i] = "backup"
              => /\ mode = "normal"
                 /\ i >= 4
                 /\ log[i - 1] = "saved"
                 /\ log[i - 2] = "pipeline_ok"
                 /\ log[i - 3] = "acquired")

\* a run that succeeded at its second attempt, on an older record
C8_Witness ==
    /\ pc = "done"
    /\ mode = "normal"
    /\ log = <<"acquire_failed", "sleep", "acquired", "pipeline_ok",
               "saved", "backup">>
    /\ pre.canon.kind = "rec"
    /\ UtcOf(pre.canon) < now
    /\ UtcOf(canon) = now

\* C9: a failed status write after the pipeline published is followed by
\* the backup trigger and nothing else: no retry, no staleness check.
C9_SaveFailureStillSucceeds ==
    \A i \in 1..Len(log) :
      log[i] = "save_failed"
        => /\ i < Len(log) => log[i + 1] = "backup"
           /\ pc = "done" => (i < Len(log) /\ exit = "ok")

\* every attempt of the finished normal run failed in the acquisition
AllAcquisitionsFailed ==
    /\ pc = "done"
    /\ mode = "normal"
    /\ maxAttempts >= 1
    /\ Count(log, "acquire_failed") = maxAttempts

\* the run found a record with stale_applied false, older than the threshold
FoundStaleRecord ==
    /\ pre.canon.kind = "rec"
    /\ ~pre.canon.sa
    /\ now - UtcOf(pre.canon) > WARNING_THRESHOLD_HOURS

\* one overlay on the master in place, flag set in both mirrors, the rest
\* of the record and the other artifacts as found
OneOverlayAndFlag ==
    /\ Count(log, "stamped") = 1
    /\ master = [gen |-> pre.master.gen, stamps |-> pre.master.stamps + 1]
    /\ canon = [pre.canon EXCEPT !.sa = TRUE]
    /\ web = canon
    /\ png = pre.png
    /\ jpg = pre.jpg
    /\ ptr = pre.ptr

C11_SuccessAfterOutageResets ==
    (pc = "done" /\ mode = "normal" /\ Has(log, "saved")
       /\ pre.canon.kind = "rec" /\ pre.canon.sa)
      => /\ canon.kind = "rec"
         /\ web = canon
         /\ ~canon.sa
         /\ UtcOf(canon) = now
         /\ UtcOf(canon) > UtcOf(pre.canon)
         /\ master = [gen |-> buf, stamps |-> 0]
         /\ buf = nextGen - 1

\* the second capture succeeded on a flagged record
C11_Witness ==
    /\ pc = "done"
    /\ mode = "normal"
    /\ Has(log, "saved")
    /\ pre.canon.kind = "rec"
    /\ pre.canon.sa
    /\ ~canon.sa
    /\ master.gen = 2

\* C12: a staleness check that finds no record (file absent or
\* unparsable), or a record not older than the threshold, ends at once: no
\* overlay call, status mirrors and artifacts as before.
C12_NothingToDoIsNoOp ==
    [][(pc = "check"
          /\ (canon.kind # "rec"
                \/ now - UtcOf(canon) <= WARNING_THRESHOLD_HOURS))
         => /\ pc' = "done"
            /\ log' = Append(log, "check")
            /\ files' = files]_vars

\* a check found an unparsable canonical file next to published artifacts,
\* 13 h after the capture
C12_Witness ==
    /\ pc = "done"
    /\ Len(log) > 0
    /\ Last(log) = "check"
    /\ canon.kind = "corrupt"
    /\ master.gen # 0
    /\ now > WARNING_THRESHOLD_HOURS

C14_FlagImpliesLastSuccess ==
    \A f \in {canon, web} : f.sa => f.kind = "rec"

\* the flag is set in the canonical record while the mirror is unparsable
C14_Witness ==
    /\ canon.kind = "rec"
    /\ canon.sa
    /\ web.kind = "corrupt"

\* C15: a --check-stale run makes no acquisition attempt, runs no Image
\* Pipeline, calls neither save_last_success_time nor the backup trigger,
\* and makes exactly one staleness check.
C15_CheckStaleOnlyChecks ==
    (mode = "check")
      => /\ pc \in {"check", "overlay", "mark", "done"}
         /\ \A i \in 1..Len(log) :
              log[i] \in {"check", "overlay", "stamped", "mark",
                          "mark_failed"}
         /\ Count(log, "check") = (IF pc = "check" THEN 0 ELSE 1)
         /\ buf = 0

\* a --check-stale run that stamped the overlay is over
C15_Witness ==
    /\ mode = "check"
    /\ pc = "done"
    /\ log = <<"check", "overlay", "stamped", "mark">>

\* C16: the backup script runs only from the backup trigger of a
\* successful attempt, when BACKUP_DIR exists and its graphs directory is
\* missing or empty; a filled backup stays and no script runs on it; the
\* run ends normally whether the script succeeds or fails.
C16_BackupOnlyIfMissing ==
    [][LET scriptRan == Len(log') > Len(log) /\ Last(log') = "script" IN
       /\ scriptRan => /\ pc = "backup"
                       /\ backup = "empty"
                       /\ Len(log) >= 1
                       /\ Last(log) = "saved"
                       /\ pc' = "done"
                       /\ exit' = "ok"
       /\ (backup = "full") => (backup' = "full" /\ ~scriptRan)]_vars

\* the script ran, failed, and the run ended normally
C16_Witness ==
    /\ pc = "done"
    /\ exit = "ok"
    /\ Len(log) > 0
    /\ Last(log) = "script"
    /\ backup = "empty"

\* a later successful run on a filled backup
C16_FilledBackup ==
    /\ pc = "done"
    /\ Len(log) > 0
    /\ Last(log) = "backup"
    /\ backup = "full"
    /\ buf = 2

\* C17: for every cropped size in the range the resized size fits the
\* 720 x 437 box, and it keeps the aspect ratio up to one pixel: some
\* scale s has w * s within [w', w' + 1] and h * s within [h', h' + 1].
C17_ResizeFitsBox ==
    (pc = "resized")
      => /\ new_size[1] <= TARGET_MAX_WIDTH
         /\ new_size[2] <= TARGET_MAX_HEIGHT
         /\ new_size[1] * crop[2] <= (new_size[2] + 1) * crop[1]
         /\ new_size[2] * crop[1] <= (new_size[1] + 1) * crop[2]

\* a crop larger than the box in both dimensions was shrunk into it
C17_Witness ==
    /\ pc = "resized"
    /\ crop[1] > TARGET_MAX_WIDTH
    /\ crop[2] > TARGET_MAX_HEIGHT
    /\ new_size[1] < crop[1]
    /\ new_size[2] = TARGET_MAX_HEIGHT

\* C18: a finished normal run either rewrote the status record by
\* save_last_success_time or called the staleness check, and not both.
C18_SuccessOrExhausted ==
    (pc = "done" /\ mode = "normal")
      => (Has(log, "saved") # Has(log, "check"))

\* the attempts the run has started
AttemptsStarted == Count(log, "acquired") + Count(log, "acquire_failed")

\* position of a control point inside one attempt, counted from its end
StepsLeft ==
    CASE pc = "acquire" -> 9
      [] pc = "pipe_master" -> 8
      [] pc = "pipe_png" -> 7
      [] pc = "pipe_jpg" -> 6
      [] pc = "pipe_unlink" -> 5
      [] pc = "pipe_symlink" -> 4
      [] pc = "save" -> 3
      [] pc = "backup" -> 2
      [] pc = "except" -> 1
      [] OTHER -> 0

\* an upper bound of the steps the run in progress can still take
Rank ==
    CASE pc \in {"idle", "done"} -> 0
      [] pc = "mark" -> 1
      [] pc = "overlay" -> 2
      [] pc = "check" -> 3
      [] OTHER -> 3 + StepsLeft + 10 * (maxAttempts - attempt)

\* C19: a normal run starts at most maxAttempts attempts, one after the
\* other; a browser session is open only inside an attempt whose
\* acquisition succeeded, never when the next attempt starts, in the except
\* clause, in the staleness check or when the run is over; and the run
\* ends: an unfinished run always has a next step, and every step lowers
\* the bound of the steps still to take.
C19_BoundedSequentialAttempts ==
    /\ [](mode = "normal"
           => /\ attempt <= maxAttempts
              /\ AttemptsStarted <= maxAttempts
              /\ AttemptsStarted
                   = (IF pc = "acquire" THEN attempt - 1 ELSE attempt))
    /\ [](session
           => /\ pc \in PipeSteps \cup {"save", "backup"}
              /\ Has(log, "acquired"))
    /\ [](pc \in {"idle", "acquire", "except", "check", "overlay", "mark",
                   "done"} => ~session)
    /\ [](Rank >= 0)
    /\ [](pc \notin {"idle", "done"} => ENABLED RunStep)
    /\ [][pc \notin {"idle", "done"} => Rank' < Rank]_vars

\* the second attempt of a run holds a session after the first one failed
\* past its acquisition
C19_Witness ==
    /\ mode = "normal"
    /\ attempt = 2
    /\ session
    /\ Has(log, "save_failed")
    /\ pc = "backup"

\* C20: a call of add_warning_overlay that does not stamp (file missing,
\* or a step raised) returns to check_and_overlay_stale_data, which goes
\* on to mark_stale_applied.
C20_OverlayFailureSwallowed ==
    \A i \in 1..Len(log) :
      log[i] = "overlay"
        => IF i = Len(log)
             THEN pc = "mark" /\ exit = "none"
             ELSE \/ log[i + 1] \in {"mark", "mark_failed"}
                  \/ /\ log[i + 1] = "stamped"
                     /\ IF i + 1 = Len(log)
                          THEN pc = "mark"
                          ELSE log[i + 2] \in {"mark", "mark_failed"}

\* the overlay failed on an existing master and the flag was written
C20_Witness ==
    /\ pc = "done"
    /\ exit = "ok"
    /\ log = <<"check", "overlay", "mark">>
    /\ master.gen # 0
    /\ master.stamps = 0
    /\ canon.sa

\* C21: once latest_graph.png exists it exists in every later state, the
\* states inside a later Image Pipeline call included, and the master it
\* names exists: the pointer is never seen missing or dangling.
C21_PointerNeverMissing ==
    /\ [][ptr.gen # 0 => ptr'.gen # 0]_vars
    /\ [](ptr.gen # 0 => master.gen # 0)

\* C22: a cropped image smaller than the 720 x 437 box in both dimensions
\* (scale above 1) is not enlarged: the resized image is no wider and no
\* higher than the crop.
C22_NoUpscale ==
    (pc = "resized" /\ crop[1] < TARGET_MAX_WIDTH
       /\ crop[2] < TARGET_MAX_HEIGHT)
      => /\ new_size[1] <= crop[1]
         /\ new_size[2] <= crop[2]

\* the decision the canonical file yields at the instant of the check
CanonSaysDue ==
    /\ canon.kind = "rec"
    /\ ~canon.sa
    /\ now - UtcOf(canon) > WARNING_THRESHOLD_HOURS

\* the canonical record with the flag set
CanonFlagged == [canon EXCEPT !.sa = TRUE]

\* C23: the staleness check is a function of the canonical file, the public
\* file has no part in it: the overlay is called exactly when the canonical
\* record is unflagged and older than the threshold; a mirror written by
\* the check holds the canonical record with the flag set (or is cut short
\* by a failed dump), whatever the public file held; and when
\* mark_stale_applied returns both mirrors hold that record.
C23_CanonicalIsAuthoritative ==
    /\ [][pc = "check" => ((pc' = "overlay") <=> CanonSaysDue)]_vars
    /\ [][(pc \in {"check", "overlay", "mark"})
            => \A f \in {<<canon, canon'>>, <<web, web'>>} :
                 (f[2] # f[1]) => (f[2] \in {CanonFlagged, Corrupt})]_vars
    /\ [][(pc = "mark" /\ exit' = "ok")
            => (canon' = CanonFlagged /\ web' = CanonFlagged)]_vars

\* the public file alone would call for an overlay (record unflagged and
\* older than the threshold); the canonical record is flagged and the
\* check changed nothing
C23_Witness ==
    /\ pc = "done"
    /\ log = <<"check">>
    /\ pre.canon.kind = "rec"
    /\ pre.canon.sa
    /\ pre.web.kind = "rec"
    /\ ~pre.web.sa
    /\ now - UtcOf(pre.web) > WARNING_THRESHOLD_HOURS
    /\ files = pre

\* the public file was unparsable, the canonical record stale: overlay
\* stamped and the flagged canonical record written to both mirrors
C23_PublicRebuilt ==
    /\ pc = "done"
    /\ log = <<"check", "overlay", "stamped", "mark">>
    /\ pre.web.kind = "corrupt"
    /\ web = [pre.canon EXCEPT !.sa = TRUE]
    /\ canon = web

\* C24: whenever the canonical record has stale_applied true, the published
\* master exists and carries the warning overlay.
C24_FlagMeansStamped ==
    (canon.kind = "rec" /\ canon.sa)
      => (master.gen # 0 /\ master.stamps >= 1)

\* C25: within one run the warning overlay is never stamped after the Image
\* Pipeline of that run has published a master, whatever fails afterwards.
C25_FreshMasterNotStamped ==
    ~(Has(log, "pipeline_ok") /\ Has(log, "stamped"))

\* the HTTP GETs and the state updates a run of the fetcher has issued
GetsIssued == Count(log, "get_ok") + Count(log, "get_failed")
PostsIssued ==
    Cardinality({i \in 1..Len(log) :
                   log[i] \in {"post_flow", "post_flow_failed",
                               "post_height", "post_height_failed"}})

\* C26: a run of the fetcher issues at most FETCH_RETRY_COUNT GETs and none
\* after the first successful one; it posts to the smart-home API only
\* after a successful GET and a successful parse; and it returns without
\* raising, for every FETCH_RETRY_COUNT >= 0.
C26_FetcherBoundedNoRaise ==
    (mode = "fetcher")
      => /\ GetsIssued <= maxAttempts
         /\ \A i \in 1..Len(log) : \A j \in 1..Len(log) :
              (log[i] = "get_ok" /\ j > i)
                => log[j] \notin {"get_ok", "get_failed", "sleep"}
         /\ PostsIssued > 0
              => (Has(log, "get_ok") /\ Has(log, "parsed"))
         /\ pc = "done" => exit = "ok"
====
